---- MODULE Spec2Model ----
(***************************************************************************)
(* The in-memory document store of the Mergington High School API:         *)
(* backend/database.py and its twin backend/database_memory.py.  Each      *)
(* module owns two MockCollection objects (activities, teachers) over a    *)
(* Python dict, and an init_database routine that seeds them.  The model    *)
(* runs the two modules side by side on the same sequence of calls.         *)
(*                                                                         *)
(* Python values are tagged records: Str, Num, List (of tagged values) and *)
(* Map (a function from key strings to tagged values).  A document body is *)
(* a function from field names to tagged values.  A dict is a sequence of  *)
(* entries in insertion order, as CPython iterates it.                      *)
(***************************************************************************)
EXTENDS Integers, Sequences, FiniteSets, TLC

Range(s) == {s[i] : i \in DOMAIN s}

Str(s) == [str |-> s]
Num(n) == [int |-> n]
List(l) == [list |-> l]
Map(f) == [map |-> f]

IsStr(v) == DOMAIN v = {"str"}
IsList(v) == DOMAIN v = {"list"}
IsMap(v) == DOMAIN v = {"map"}

\* The empty dict {}
EmptyDict == [k \in {} |-> Str("")]

Modules == {"database", "database_memory"}

\* Bound on the number of mutating calls (init_database, insert_one,
\* update_one) in one run.
MaxWrites == 3

(***************************************************************************)
(* Strings compare by code point, as Python's str does.  Codes gives the   *)
(* code points of the strings the model orders or searches.                *)
(***************************************************************************)
Codes ==
    "Monday" :> <<77, 111, 110, 100, 97, 121>> @@
    "Tuesday" :> <<84, 117, 101, 115, 100, 97, 121>> @@
    "Wednesday" :> <<87, 101, 100, 110, 101, 115, 100, 97, 121>> @@
    "Thursday" :> <<84, 104, 117, 114, 115, 100, 97, 121>> @@
    "Friday" :> <<70, 114, 105, 100, 97, 121>> @@
    "Saturday" :> <<83, 97, 116, 117, 114, 100, 97, 121>> @@
    "Sunday" :> <<83, 117, 110, 100, 97, 121>> @@
    "$in" :> <<36, 105, 110>> @@
    "$gte" :> <<36, 103, 116, 101>> @@
    "$lte" :> <<36, 108, 116, 101>> @@
    "06:30" :> <<48, 54, 58, 51, 48>> @@
    "07:00" :> <<48, 55, 58, 48, 48>> @@
    "07:15" :> <<48, 55, 58, 49, 53>> @@
    "07:45" :> <<48, 55, 58, 52, 53>> @@
    "08:00" :> <<48, 56, 58, 48, 48>> @@
    "10:00" :> <<49, 48, 58, 48, 48>> @@
    "13:00" :> <<49, 51, 58, 48, 48>> @@
    "14:00" :> <<49, 52, 58, 48, 48>> @@
    "15:15" :> <<49, 53, 58, 49, 53>> @@
    "15:30" :> <<49, 53, 58, 51, 48>> @@
    "16:00" :> <<49, 54, 58, 48, 48>> @@
    "16:45" :> <<49, 54, 58, 52, 53>> @@
    "17:00" :> <<49, 55, 58, 48, 48>> @@
    "17:30" :> <<49, 55, 58, 51, 48>> @@
    "19:00" :> <<49, 57, 58, 48, 48>> @@
    "20:30" :> <<50, 48, 58, 51, 48>> @@
    "9:00" :> <<57, 58, 48, 48>>

RECURSIVE SeqLess(_, _)
SeqLess(a, b) ==
    IF a = <<>> THEN b # <<>>
    ELSE IF b = <<>> THEN FALSE
    ELSE IF Head(a) # Head(b) THEN Head(a) < Head(b)
    ELSE SeqLess(Tail(a), Tail(b))

\* Python  a < b  on two str values
py_lt(a, b) == SeqLess(Codes[a.str], Codes[b.str])

\* Python  a > b  on two str values
py_gt(a, b) == py_lt(b, a)

IsSubstring(a, b) ==
    \E i \in 0..(Len(b) - Len(a)) : SubSeq(b, i + 1, i + Len(a)) = a

\* Python  k in c : key of a dict, element of a list, substring of a str.
py_in(k, c) ==
    IF IsMap(c) THEN IsStr(k) /\ k.str \in DOMAIN c.map
    ELSE IF IsList(c) THEN \E i \in DOMAIN c.list : c.list[i] = k
    ELSE IF IsStr(c) THEN IsStr(k) /\ IsSubstring(Codes[k.str], Codes[c.str])
    ELSE FALSE

\* a sort that puts the greatest first
RECURSIVE sorted_descending(_)
sorted_descending(S) ==
    IF S = {} THEN <<>>
    ELSE LET greatest == CHOOSE x \in S : \A y \in S \ {x} : py_lt(y, x)
         IN  <<greatest>> \o sorted_descending(S \ {greatest})

\* Python  sorted(S)  of a set of str values
RECURSIVE sorted(_)
sorted(S) ==
    IF S = {} THEN <<>>
    ELSE LET least == CHOOSE x \in S : \A y \in S \ {x} : py_lt(x, y)
         IN  <<least>> \o sorted(S \ {least})

\* str.split('.') on the field paths of the model
split(key) ==
    CASE key = "schedule_details.days" -> <<"schedule_details", "days">>
    []   key = "schedule_details.start_time" -> <<"schedule_details", "start_time">>
    []   key = "schedule_details.end_time" -> <<"schedule_details", "end_time">>
    []   OTHER -> <<key>>

\* The argon2 hash of a password: an opaque value, computed once at import.
hash_password(password) == [argon2 |-> password]

(***************************************************************************)
(* Seed data (the same in both modules).                                    *)
(***************************************************************************)
activity_names ==
    <<"Chess Club",
      "Programming Class",
      "Morning Fitness",
      "Soccer Team",
      "Basketball Team",
      "Art Club",
      "Drama Club",
      "Math Club",
      "Debate Team",
      "Weekend Robotics Workshop",
      "Science Olympiad",
      "Sunday Chess Tournament",
      "Manga Maniacs">>

initial_activities_seed ==
    [name \in Range(activity_names) |->
        CASE name = "Chess Club" ->
            [description |-> Str("Learn strategies and compete in chess tournaments"),
             schedule |-> Str("Mondays and Fridays, 3:15 PM - 4:45 PM"),
             schedule_details |-> Map([days |-> List(<<Str("Monday"), Str("Friday")>>),
                      start_time |-> Str("15:15"),
                      end_time |-> Str("16:45")]),
             max_participants |-> Num(12),
             participants |-> List(<<Str("michael@mergington.edu"), Str("daniel@mergington.edu")>>)]
        []   name = "Programming Class" ->
            [description |-> Str("Learn programming fundamentals and build software projects"),
             schedule |-> Str("Tuesdays and Thursdays, 7:00 AM - 8:00 AM"),
             schedule_details |-> Map([days |-> List(<<Str("Tuesday"), Str("Thursday")>>),
                      start_time |-> Str("07:00"),
                      end_time |-> Str("08:00")]),
             max_participants |-> Num(20),
             participants |-> List(<<Str("emma@mergington.edu"), Str("sophia@mergington.edu")>>)]
        []   name = "Morning Fitness" ->
            [description |-> Str("Early morning physical training and exercises"),
             schedule |-> Str("Mondays, Wednesdays, Fridays, 6:30 AM - 7:45 AM"),
             schedule_details |-> Map([days |-> List(<<Str("Monday"), Str("Wednesday"), Str("Friday")>>),
                      start_time |-> Str("06:30"),
                      end_time |-> Str("07:45")]),
             max_participants |-> Num(30),
             participants |-> List(<<Str("john@mergington.edu"), Str("olivia@mergington.edu")>>)]
        []   name = "Soccer Team" ->
            [description |-> Str("Join the school soccer team and compete in matches"),
             schedule |-> Str("Tuesdays and Thursdays, 3:30 PM - 5:30 PM"),
             schedule_details |-> Map([days |-> List(<<Str("Tuesday"), Str("Thursday")>>),
                      start_time |-> Str("15:30"),
                      end_time |-> Str("17:30")]),
             max_participants |-> Num(22),
             participants |-> List(<<Str("liam@mergington.edu"), Str("noah@mergington.edu")>>)]
        []   name = "Basketball Team" ->
            [description |-> Str("Practice and compete in basketball tournaments"),
             schedule |-> Str("Wednesdays and Fridays, 3:15 PM - 5:00 PM"),
             schedule_details |-> Map([days |-> List(<<Str("Wednesday"), Str("Friday")>>),
                      start_time |-> Str("15:15"),
                      end_time |-> Str("17:00")]),
             max_participants |-> Num(15),
             participants |-> List(<<Str("ava@mergington.edu"), Str("mia@mergington.edu")>>)]
        []   name = "Art Club" ->
            [description |-> Str("Explore various art techniques and create masterpieces"),
             schedule |-> Str("Thursdays, 3:15 PM - 5:00 PM"),
             schedule_details |-> Map([days |-> List(<<Str("Thursday")>>),
                      start_time |-> Str("15:15"),
                      end_time |-> Str("17:00")]),
             max_participants |-> Num(15),
             participants |-> List(<<Str("amelia@mergington.edu"), Str("harper@mergington.edu")>>)]
        []   name = "Drama Club" ->
            [description |-> Str("Act, direct, and produce plays and performances"),
             schedule |-> Str("Mondays and Wednesdays, 3:30 PM - 5:30 PM"),
             schedule_details |-> Map([days |-> List(<<Str("Monday"), Str("Wednesday")>>),
                      start_time |-> Str("15:30"),
                      end_time |-> Str("17:30")]),
             max_participants |-> Num(20),
             participants |-> List(<<Str("ella@mergington.edu"), Str("scarlett@mergington.edu")>>)]
        []   name = "Math Club" ->
            [description |-> Str("Solve challenging problems and prepare for math competitions"),
             schedule |-> Str("Tuesdays, 7:15 AM - 8:00 AM"),
             schedule_details |-> Map([days |-> List(<<Str("Tuesday")>>),
                      start_time |-> Str("07:15"),
                      end_time |-> Str("08:00")]),
             max_participants |-> Num(10),
             participants |-> List(<<Str("james@mergington.edu"), Str("benjamin@mergington.edu")>>)]
        []   name = "Debate Team" ->
            [description |-> Str("Develop public speaking and argumentation skills"),
             schedule |-> Str("Fridays, 3:30 PM - 5:30 PM"),
             schedule_details |-> Map([days |-> List(<<Str("Friday")>>),
                      start_time |-> Str("15:30"),
                      end_time |-> Str("17:30")]),
             max_participants |-> Num(12),
             participants |-> List(<<Str("charlotte@mergington.edu"), Str("amelia@mergington.edu")>>)]
        []   name = "Weekend Robotics Workshop" ->
            [description |-> Str("Build and program robots in our state-of-the-art workshop"),
             schedule |-> Str("Saturdays, 10:00 AM - 2:00 PM"),
             schedule_details |-> Map([days |-> List(<<Str("Saturday")>>),
                      start_time |-> Str("10:00"),
                      end_time |-> Str("14:00")]),
             max_participants |-> Num(15),
             participants |-> List(<<Str("ethan@mergington.edu"), Str("oliver@mergington.edu")>>)]
        []   name = "Science Olympiad" ->
            [description |-> Str("Weekend science competition preparation for regional and state events"),
             schedule |-> Str("Saturdays, 1:00 PM - 4:00 PM"),
             schedule_details |-> Map([days |-> List(<<Str("Saturday")>>),
                      start_time |-> Str("13:00"),
                      end_time |-> Str("16:00")]),
             max_participants |-> Num(18),
             participants |-> List(<<Str("isabella@mergington.edu"), Str("lucas@mergington.edu")>>)]
        []   name = "Sunday Chess Tournament" ->
            [description |-> Str("Weekly tournament for serious chess players with rankings"),
             schedule |-> Str("Sundays, 2:00 PM - 5:00 PM"),
             schedule_details |-> Map([days |-> List(<<Str("Sunday")>>),
                      start_time |-> Str("14:00"),
                      end_time |-> Str("17:00")]),
             max_participants |-> Num(16),
             participants |-> List(<<Str("william@mergington.edu"), Str("jacob@mergington.edu")>>)]
        []   name = "Manga Maniacs" ->
            [description |-> Str("Dive into the incredible worlds of Japanese manga! From epic shonen adventures to heartwarming slice-of-life stories, discover amazing characters, stunning artwork, and mind-blowing plot twists. Share your favorite series, debate the best anime adaptations, and find your next obsession with fellow otaku!"),
             schedule |-> Str("Tuesdays, 7:00 PM - 8:30 PM"),
             schedule_details |-> Map([days |-> List(<<Str("Tuesday")>>),
                      start_time |-> Str("19:00"),
                      end_time |-> Str("20:30")]),
             max_participants |-> Num(15),
             participants |-> List(<<>>)]]

initial_teachers ==
    <<[username |-> Str("mrodriguez"),
       display_name |-> Str("Ms. Rodriguez"),
       password |-> hash_password("art123"),
       role |-> Str("teacher")],
      [username |-> Str("mchen"),
       display_name |-> Str("Mr. Chen"),
       password |-> hash_password("chess456"),
       role |-> Str("teacher")],
      [username |-> Str("principal"),
       display_name |-> Str("Principal Martinez"),
       password |-> hash_password("admin789"),
       role |-> Str("admin")]>>


(***************************************************************************)
(* The dict behind a MockCollection: a sequence of entries                 *)
(* [id, doc, shared] in insertion order.  doc is the stored body.  shared  *)
(* names the fields of doc whose list object is the very list held by      *)
(* initial_activities[id] (database.py stores the seed's lists without      *)
(* copying them; database_memory.py deep-copies on insert).                *)
(***************************************************************************)
dict_has(data, doc_id) == \E i \in DOMAIN data : data[i].id = doc_id

dict_index(data, doc_id) == CHOOSE i \in DOMAIN data : data[i].id = doc_id

dict_get(data, doc_id) == data[dict_index(data, doc_id)]

\* data[doc_id] = entry : an existing key keeps its position
dict_set(data, entry) ==
    IF dict_has(data, entry.id)
    THEN [data EXCEPT ![dict_index(data, entry.id)] = entry]
    ELSE Append(data, entry)

\* doc.copy() / deepcopy(doc) followed by  result["_id"] = doc_id
with_id(doc, doc_id) ==
    [k \in DOMAIN doc \cup {"_id"} |-> IF k = "_id" THEN doc_id ELSE doc[k]]

\* doc.pop("_id") : the body that is left
without_id(document) == [k \in DOMAIN document \ {"_id"} |-> document[k]]

(***************************************************************************)
(* database.py : MockCollection.find                                       *)
(***************************************************************************)
database_key_matches(doc, key, value) ==
    CASE key = "schedule_details.days" ->
            IF py_in(Str("$in"), value)
            THEN /\ "schedule_details" \in DOMAIN doc
                 /\ py_in(Str("days"), doc["schedule_details"])
                 /\ LET days_to_match == value.map["$in"].list
                    IN  \E i \in DOMAIN days_to_match :
                           py_in(days_to_match[i], doc["schedule_details"].map["days"])
            ELSE TRUE
    []   key = "schedule_details.start_time" ->
            IF py_in(Str("$gte"), value)
            THEN /\ "schedule_details" \in DOMAIN doc
                 /\ py_in(Str("start_time"), doc["schedule_details"])
                 /\ ~ py_lt(doc["schedule_details"].map["start_time"], value.map["$gte"])
            ELSE TRUE
    []   key = "schedule_details.end_time" ->
            IF py_in(Str("$lte"), value)
            THEN /\ "schedule_details" \in DOMAIN doc
                 /\ py_in(Str("end_time"), doc["schedule_details"])
                 /\ ~ py_gt(doc["schedule_details"].map["end_time"], value.map["$lte"])
            ELSE TRUE
    []   OTHER -> key \in DOMAIN doc /\ doc[key] = value

database_matches(doc, query) ==
    \A key \in DOMAIN query : database_key_matches(doc, key, query[key])

database_find(data, query) ==
    LET match(e) == database_matches(e.doc, query)
        hits == SelectSeq(data, match)
    IN  [i \in DOMAIN hits |-> with_id(hits[i].doc, hits[i].id)]

(***************************************************************************)
(* database_memory.py : MockCollection.find                                *)
(***************************************************************************)
\* for k in keys: current_value = current_value[k], or no match.
\* ok is FALSE when some k is not in current_value.
RECURSIVE resolve(_, _)
resolve(current_value, keys) ==
    IF keys = <<>> THEN [ok |-> TRUE, value |-> current_value]
    ELSE IF IsMap(current_value) /\ py_in(Str(Head(keys)), current_value)
         THEN resolve(current_value.map[Head(keys)], Tail(keys))
         ELSE [ok |-> FALSE, value |-> current_value]

database_memory_key_matches(doc_copy, key, value) ==
    /\ key \in DOMAIN doc_copy
    /\ IF Len(split(key)) > 1
       THEN LET r == resolve(Map(doc_copy), split(key))
                current_value == r.value
            IN  /\ r.ok
                /\ IF IsMap(value) /\ py_in(Str("$in"), value)
                   THEN \E i \in DOMAIN value.map["$in"].list :
                           py_in(value.map["$in"].list[i], current_value)
                   ELSE IF IsMap(value) /\ py_in(Str("$gte"), value)
                   THEN ~ py_lt(current_value, value.map["$gte"])
                   ELSE IF IsMap(value) /\ py_in(Str("$lte"), value)
                   THEN ~ py_gt(current_value, value.map["$lte"])
                   ELSE current_value = value
       ELSE doc_copy[key] = value

database_memory_matches(doc_copy, query) ==
    \A key \in DOMAIN query : database_memory_key_matches(doc_copy, key, query[key])

database_memory_find(data_store, query) ==
    LET match(e) == database_memory_matches(with_id(e.doc, e.id), query)
        hits == SelectSeq(data_store, match)
    IN  [i \in DOMAIN hits |-> with_id(hits[i].doc, hits[i].id)]

(***************************************************************************)
(* MockCollection methods, by module                                       *)
(***************************************************************************)
find(m, data, query) ==
    IF m = "database" THEN database_find(data, query)
    ELSE database_memory_find(data, query)

\* results[0] if results else None
None == [none |-> TRUE]

\* find_one that takes the last match
find_one_last(m, data, query) ==
    LET results == find(m, data, query)
    IN  IF results # <<>> THEN results[Len(results)] ELSE None

find_one(m, data, query) ==
    LET results == find(m, data, query)
    IN  IF results # <<>> THEN results[1] ELSE None

count_documents(m, data, query) == Len(find(m, data, query))

(***************************************************************************)
(* insert_one.  aliases names the list fields of document that the caller  *)
(* keeps a reference to: database.py stores the caller's lists themselves, *)
(* database_memory.py stores a deep copy.                                  *)
(***************************************************************************)
\* insert_one that never replaces: a second insert of an identifier adds a
\* second entry.
insert_one_appending(m, data, document, aliases) ==
    Append(data, [id |-> document["_id"], doc |-> without_id(document),
                  shared |-> {}])

database_insert_one(data, document, aliases) ==
    dict_set(data, [id |-> document["_id"], doc |-> without_id(document),
                    shared |-> aliases])

database_memory_insert_one(data_store, document) ==
    dict_set(data_store, [id |-> document["_id"], doc |-> without_id(document),
                          shared |-> {}])

insert_one(m, data, document, aliases) ==
    IF m = "database" THEN database_insert_one(data, document, aliases)
    ELSE database_memory_insert_one(data, document)

(***************************************************************************)
(* update_one.  update maps "$push" and "$pull" to a dict of field: value. *)
(* The result is the dict after the call, the seed catalog after the call  *)
(* (a push through a shared list shows in the seed too) and modified_count.*)
(***************************************************************************)
update_part(update, op) == IF op \in DOMAIN update THEN update[op] ELSE EmptyDict

\* list.remove(value) : drops the first occurrence
remove_first(l, value) ==
    LET i == CHOOSE j \in DOMAIN l :
                 l[j] = value /\ \A k \in 1..(j - 1) : l[k] # value
    IN  SubSeq(l, 1, i - 1) \o SubSeq(l, i + 1, Len(l))

\* the comprehension with its test inverted: keeps the value, drops the rest
remove_all_inverted(l, value) ==
    LET keep(item) == item = value
    IN  SelectSeq(l, keep)

\* [item for item in l if item != value]
remove_all(l, value) ==
    LET keep(item) == item # value
    IN  SelectSeq(l, keep)

\* database.py:87-91
database_push(doc, pushes) ==
    [field \in DOMAIN doc \cup DOMAIN pushes |->
        IF field \in DOMAIN pushes
        THEN List(Append(IF field \in DOMAIN doc THEN doc[field].list ELSE <<>>,
                         pushes[field]))
        ELSE doc[field]]

\* database.py:94-97
database_pull(doc, pulls) ==
    [field \in DOMAIN doc |->
        IF field \in DOMAIN pulls /\ IsList(doc[field])
        THEN List(remove_all(doc[field].list, pulls[field]))
        ELSE doc[field]]

database_update_one(data, seed, query, update) ==
    LET results == database_find(data, query)
    IN  IF results # <<>>
        THEN LET doc_id == results[1]["_id"]
                 e == dict_get(data, doc_id)
                 pushes == update_part(update, "$push")
                 pulls == update_part(update, "$pull")
                 \* fields appended to in place through a list the seed holds
                 through == e.shared \cap DOMAIN pushes \cap DOMAIN e.doc
                 pushed == database_push(e.doc, pushes)
             IN  [data |-> dict_set(data,
                             [id |-> doc_id,
                              doc |-> database_pull(pushed, pulls),
                              shared |-> e.shared \ {f \in DOMAIN pulls :
                                            f \in DOMAIN pushed /\ IsList(pushed[f])}]),
                  seed |-> IF through = {} THEN seed
                           ELSE [seed EXCEPT ![doc_id.str] =
                                    [f \in DOMAIN @ |->
                                        IF f \in through THEN pushed[f] ELSE @[f]]],
                  modified_count |-> 1]
        ELSE [data |-> data, seed |-> seed, modified_count |-> 0]

\* database_memory.py:96-101
database_memory_push(doc, pushes) ==
    [field \in DOMAIN doc \cup DOMAIN pushes |->
        IF field \in DOMAIN pushes
        THEN IF field \in DOMAIN doc
             THEN List(Append(doc[field].list, pushes[field]))
             ELSE List(<<pushes[field]>>)
        ELSE doc[field]]

\* database_memory.py:104-107
database_memory_pull(doc, pulls) ==
    [field \in DOMAIN doc |->
        IF field \in DOMAIN pulls /\ py_in(pulls[field], doc[field])
        THEN List(remove_first(doc[field].list, pulls[field]))
        ELSE doc[field]]

database_memory_update_one(data_store, seed, filter_query, update_query) ==
    LET doc == find_one("database_memory", data_store, filter_query)
    IN  IF doc = None
        THEN [data |-> data_store, seed |-> seed, modified_count |-> 0]
        ELSE LET doc_id == doc["_id"]
                 e == dict_get(data_store, doc_id)
                 pushes == update_part(update_query, "$push")
                 pulls == update_part(update_query, "$pull")
             IN  [data |-> dict_set(data_store,
                             [e EXCEPT !.doc = database_memory_pull(
                                          database_memory_push(e.doc, pushes), pulls)]),
                  seed |-> seed,
                  modified_count |-> 1]

update_one(m, data, seed, query, update) ==
    IF m = "database" THEN database_update_one(data, seed, query, update)
    ELSE database_memory_update_one(data, seed, query, update)

(***************************************************************************)
(* aggregate.  A pipeline is a sequence of stages, each a dict.            *)
(***************************************************************************)
\* the set of day values over every document that has schedule_details.days
all_days(data) ==
    UNION { Range(data[i].doc["schedule_details"].map["days"].list) :
            i \in { j \in DOMAIN data :
                      /\ "schedule_details" \in DOMAIN data[j].doc
                      /\ py_in(Str("days"), data[j].doc["schedule_details"]) } }

\* [{"_id": day} for day in sorted(days)]
day_rows(days) ==
    LET s == sorted(days)
    IN  [i \in DOMAIN s |-> ("_id" :> s[i])]

database_aggregate(data, pipeline) ==
    IF /\ Len(pipeline) = 3
       /\ "$unwind" \in DOMAIN pipeline[1]
       /\ "$group" \in DOMAIN pipeline[2]
    THEN day_rows(all_days(data))
    ELSE <<>>

database_memory_aggregate(data_store, pipeline) ==
    IF /\ Len(pipeline) >= 2
       /\ "$unwind" \in DOMAIN pipeline[1]
       /\ pipeline[1]["$unwind"] = Str("$schedule_details.days")
    THEN day_rows(all_days(data_store))
    ELSE <<>>

aggregate(m, data, pipeline) ==
    IF m = "database" THEN database_aggregate(data, pipeline)
    ELSE database_memory_aggregate(data, pipeline)

(***************************************************************************)
(* init_database.  The same code in both modules; the MockCollection       *)
(* methods it calls are the module's own.  Each loop returns the dict and  *)
(* the identifiers it passed to insert_one, in call order.                 *)
(***************************************************************************)
\* {"_id": name, **details}
seed_document(name, details) == with_id(details, Str(name))

\* the list-valued fields of details: their list objects go into the new dict
list_fields(details) == {f \in DOMAIN details : IsList(details[f])}

\* for name, details in initial_activities.items(): insert_one(...)
\* c carries the dict and the calls made so far.
RECURSIVE insert_all_activities(_, _, _, _)
insert_all_activities(m, c, seed, names) ==
    IF names = <<>> THEN c
    ELSE insert_all_activities(m,
            [data |-> insert_one(m, c.data, seed_document(Head(names), seed[Head(names)]),
                                 list_fields(seed[Head(names)])),
             calls |-> Append(c.calls, Str(Head(names)))],
            seed, Tail(names))

\* for name, details in ...: if not find_one({"_id": name}): insert_one(...)
RECURSIVE insert_missing_activities(_, _, _, _)
insert_missing_activities(m, c, seed, names) ==
    IF names = <<>> THEN c
    ELSE insert_missing_activities(m,
            IF find_one(m, c.data, ("_id" :> Str(Head(names)))) = None
            THEN [data |-> insert_one(m, c.data,
                                      seed_document(Head(names), seed[Head(names)]),
                                      list_fields(seed[Head(names)])),
                  calls |-> Append(c.calls, Str(Head(names)))]
            ELSE c,
            seed, Tail(names))

\* for teacher in initial_teachers: insert_one({"_id": teacher["username"], **teacher})
RECURSIVE insert_all_teachers(_, _, _)
insert_all_teachers(m, data, teachers) ==
    IF teachers = <<>> THEN data
    ELSE insert_all_teachers(m,
            insert_one(m, data, with_id(Head(teachers), Head(teachers).username), {}),
            Tail(teachers))

init_activities(m, data, seed) ==
    IF count_documents(m, data, EmptyDict) = 0
    THEN insert_all_activities(m, [data |-> data, calls |-> <<>>], seed, activity_names)
    ELSE insert_missing_activities(m, [data |-> data, calls |-> <<>>], seed,
                                   activity_names)

init_teachers(m, data) ==
    IF count_documents(m, data, EmptyDict) = 0
    THEN insert_all_teachers(m, data, initial_teachers)
    ELSE data

(***************************************************************************)
(* Calls the model makes                                                   *)
(***************************************************************************)
michael == Str("michael@mergington.edu")
emma == Str("emma@mergington.edu")

\* documents passed to activities_collection.insert_one
InsertDocs ==
    { [_id |-> Str("Chess Club"),
       max_participants |-> Num(12),
       participants |-> List(<<>>)],
      [_id |-> Str("Glee Club"),
       schedule_details |-> Map([days |-> List(<<Str("Monday"), Str("Saturday")>>),
                                 start_time |-> Str("9:00")]),
       max_participants |-> Num(12),
       participants |-> List(<<emma>>)],
      [_id |-> Str("Study Hall"),
       description |-> Str("Quiet room")] }

\* filters passed to update_one
UpdateFilters ==
    { ("_id" :> Str("Chess Club")),
      ("max_participants" :> Num(12)) }

\* updates passed to update_one
Updates ==
    { ("$push" :> ("participants" :> michael)),
      ("$pull" :> ("participants" :> michael)),
      ("$push" :> ("waitlist" :> michael)),
      ("$pull" :> ("waitlist" :> michael)),
      ("$push" :> ("participants" :> emma)) @@ ("$pull" :> ("participants" :> michael)),
      ("$push" :> ("_id" :> michael)) }

\* queries passed to find, find_one and count_documents
Queries ==
    UpdateFilters \cup
    { EmptyDict,
      ("_id" :> Str("Glee Club")),
      ("_id" :> Str("Study Hall")),
      ("description" :> Str("Quiet room")),
      ("schedule_details.days" :> Map("$in" :> List(<<Str("Monday")>>))),
      ("schedule_details.days" :> Map("$in" :> List(<<Str("Saturday"), Str("Sunday")>>))),
      ("schedule_details.start_time" :> Map("$gte" :> Str("15:30"))),
      ("schedule_details.start_time" :> Map("$lte" :> Str("07:00"))),
      ("schedule_details.end_time" :> Map("$lte" :> Str("08:00"))),
      ("schedule_details.end_time" :> Map("$gte" :> Str("17:30"))),
      ("schedule_details.start_time" :> Str("15:15")),
      ("schedule_details.days" :> Map("$in" :> List(<<Str("Monday")>>)))
         @@ ("schedule_details.start_time" :> Map("$gte" :> Str("15:30"))) }

\* pipelines passed to aggregate
unwind_days == ("$unwind" :> Str("$schedule_details.days"))
unwind_participants == ("$unwind" :> Str("$participants"))
group_stage == ("$group" :> Map("_id" :> Str("$schedule_details.days")))
sort_stage == ("$sort" :> Map("_id" :> Num(1)))

Pipelines ==
    { <<>>,
      <<unwind_days, group_stage, sort_stage>>,
      <<unwind_days, group_stage>>,
      <<unwind_days, sort_stage, group_stage>>,
      <<unwind_participants, group_stage, sort_stage>>,
      <<group_stage, unwind_days, sort_stage>>,
      <<unwind_days, group_stage, sort_stage, sort_stage>> }

(***************************************************************************)
(* State                                                                   *)
(***************************************************************************)
VARIABLES
    activities_data,     \* per module: the dict behind activities_collection
    teachers_data,       \* per module: the dict behind teachers_collection
    initial_activities,  \* per module: the seed catalog (its lists are mutable)
    nwrites,             \* mutating calls made so far
    calls,               \* the names of the mutating calls made, in order
    last,                \* the last mutating call and what it returned
    last2,               \* the mutating call before it
    prev_data,           \* activities_data before the last mutating call
    prev2_data,          \* activities_data before the call in last2
    insert_log,          \* per module: identifiers passed to
                         \* activities_collection.insert_one, in call order
    read                 \* the last query call since the last mutating call

vars == <<activities_data, teachers_data, initial_activities, nwrites, calls, last,
          last2, prev_data, prev2_data, insert_log, read>>

NoCall == [op |-> "none"]

Init ==
    /\ activities_data = [m \in Modules |-> <<>>]
    /\ teachers_data = [m \in Modules |-> <<>>]
    /\ initial_activities = [m \in Modules |-> initial_activities_seed]
    /\ nwrites = 0
    /\ calls = <<>>
    /\ last = NoCall
    /\ last2 = NoCall
    /\ prev_data = [m \in Modules |-> <<>>]
    /\ prev2_data = [m \in Modules |-> <<>>]
    /\ insert_log = [m \in Modules |-> <<>>]
    /\ read = NoCall

\* Bookkeeping shared by the mutating calls.  A query call changes nothing,
\* so a run is its mutating calls followed by at most one query call.
CanWrite == read = NoCall /\ nwrites < MaxWrites

Wrote(call) ==
    /\ nwrites' = nwrites + 1
    /\ calls' = Append(calls, call.op)
    /\ last' = call
    /\ last2' = last
    /\ prev_data' = activities_data
    /\ prev2_data' = prev_data
    /\ read' = NoCall

InitDatabase ==
    LET r == [m \in Modules |->
                init_activities(m, activities_data[m], initial_activities[m])]
    IN  /\ CanWrite
        /\ activities_data' = [m \in Modules |-> r[m].data]
        /\ teachers_data' = [m \in Modules |-> init_teachers(m, teachers_data[m])]
        /\ insert_log' = [m \in Modules |-> insert_log[m] \o r[m].calls]
        /\ Wrote([op |-> "init_database"])
        /\ UNCHANGED initial_activities

InsertOne ==
    \E document \in InsertDocs :
        /\ CanWrite
        /\ activities_data' =
              [m \in Modules |-> insert_one(m, activities_data[m], document, {})]
        /\ insert_log' = [m \in Modules |-> Append(insert_log[m], document["_id"])]
        /\ Wrote([op |-> "insert_one", document |-> document])
        /\ UNCHANGED <<teachers_data, initial_activities>>

UpdateOne ==
    \E query \in UpdateFilters, update \in Updates :
        LET r == [m \in Modules |->
                    update_one(m, activities_data[m], initial_activities[m],
                               query, update)]
        IN  /\ CanWrite
            /\ activities_data' = [m \in Modules |-> r[m].data]
            /\ initial_activities' = [m \in Modules |-> r[m].seed]
            /\ Wrote([op |-> "update_one", query |-> query, update |-> update,
                      modified_count |-> [m \in Modules |-> r[m].modified_count]])
            /\ UNCHANGED <<teachers_data, insert_log>>

Stores == <<activities_data, teachers_data, initial_activities, nwrites, calls, last,
            last2, prev_data, prev2_data, insert_log>>

Find ==
    /\ read = NoCall
    /\ \E query \in Queries :
        /\ read' = [op |-> "find", query |-> query,
                    result |-> [m \in Modules |-> find(m, activities_data[m], query)]]
        /\ UNCHANGED Stores

FindOne ==
    /\ read = NoCall
    /\ \E query \in Queries :
        /\ read' = [op |-> "find_one", query |-> query,
                    result |-> [m \in Modules |-> find_one(m, activities_data[m], query)]]
        /\ UNCHANGED Stores

CountDocuments ==
    /\ read = NoCall
    /\ \E query \in Queries :
        /\ read' = [op |-> "count_documents", query |-> query,
                    result |-> [m \in Modules |->
                                  count_documents(m, activities_data[m], query)]]
        /\ UNCHANGED Stores

Aggregate ==
    /\ read = NoCall
    /\ \E pipeline \in Pipelines :
        /\ read' = [op |-> "aggregate", pipeline |-> pipeline,
                    result |-> [m \in Modules |->
                                  aggregate(m, activities_data[m], pipeline)]]
        /\ UNCHANGED Stores

Write == InitDatabase \/ InsertOne \/ UpdateOne

Next == Write \/ Find \/ FindOne \/ CountDocuments \/ Aggregate

Spec == Init /\ [][Next]_vars


(***************************************************************************)
(* Vocabulary of the properties                                            *)
(***************************************************************************)
\* what a find returns for a stored entry
Returned(e) == with_id(e.doc, e.id)

\* the documents find should return when Wanted selects bodies
Selected(data, Wanted(_)) == {Returned(data[i]) : i \in {j \in DOMAIN data : Wanted(data[j].doc)}}

Ids(data) == {data[i].id : i \in DOMAIN data}

\* the value a dotted or plain path leads to in a body, through nested mappings
RECURSIVE PathValue(_, _)
PathValue(value, path) ==
    IF path = <<>> THEN [found |-> TRUE, value |-> value]
    ELSE IF IsMap(value) /\ Head(path) \in DOMAIN value.map
         THEN PathValue(value.map[Head(path)], Tail(path))
         ELSE [found |-> FALSE]

\* the query has the one key it is asked about
OneKey(query) == Cardinality(DOMAIN query) = 1
TheKey(query) == CHOOSE k \in DOMAIN query : TRUE

(***************************************************************************)
(* C1: in both modules, after insert_one(D), find_one({"_id": id of D})    *)
(* returns a document, not None, whose fields are those of D with the      *)
(* identifier attached as "_id".                                           *)
(***************************************************************************)
C1_Case ==
    /\ last.op = "insert_one"
    /\ read.op = "find_one"
    /\ read.query = ("_id" :> last.document["_id"])

C1_InsertThenFindOne ==
    C1_Case => \A m \in Modules : read.result[m] = last.document

(***************************************************************************)
(* C2: in both modules, after init_database has run once, followed by any  *)
(* sequence of update_one calls, running init_database again leaves every  *)
(* activity document already in the store unchanged and inserts only seed  *)
(* activities whose identifier was absent.                                 *)
(***************************************************************************)
C2_Case ==
    /\ Len(calls) >= 2
    /\ calls[1] = "init_database"
    /\ calls[Len(calls)] = "init_database"
    /\ \A i \in 2..(Len(calls) - 1) : calls[i] = "update_one"

C2_InitIdempotent ==
    C2_Case =>
        \A m \in Modules :
            /\ \A i \in DOMAIN prev_data[m] :
                  /\ dict_has(activities_data[m], prev_data[m][i].id)
                  /\ dict_get(activities_data[m], prev_data[m][i].id).doc
                        = prev_data[m][i].doc
            /\ \A id \in Ids(activities_data[m]) \ Ids(prev_data[m]) :
                  id.str \in Range(activity_names)

(***************************************************************************)
(* C3: in both modules, find({"schedule_details.days": {"$in": L}})        *)
(* returns exactly the documents whose schedule_details.days holds at      *)
(* least one element of L; on the seed catalog with L = ["Monday"] these   *)
(* are Chess Club, Morning Fitness and Drama Club.                         *)
(***************************************************************************)
C3_Case ==
    /\ read.op = "find"
    /\ DOMAIN read.query = {"schedule_details.days"}
    /\ IsMap(read.query["schedule_details.days"])
    /\ DOMAIN read.query["schedule_details.days"].map = {"$in"}

C3_DaysIn ==
    C3_Case =>
        LET L == read.query["schedule_details.days"].map["$in"].list
            Wanted(doc) ==
                LET days == PathValue(Map(doc), <<"schedule_details", "days">>)
                IN  days.found /\ Range(days.value.list) \cap Range(L) # {}
        IN  \A m \in Modules :
               /\ Range(read.result[m]) = Selected(activities_data[m], Wanted)
               /\ (nwrites = 1 /\ last.op = "init_database" /\ L = <<Str("Monday")>>)
                     => {d["_id"] : d \in Range(read.result[m])}
                           = {Str("Chess Club"), Str("Morning Fitness"), Str("Drama Club")}

(***************************************************************************)
(* C4: in both modules, update_one with {"$push": {field: v}} followed by  *)
(* update_one with {"$pull": {field: v}} on the same document returns the  *)
(* field to the contents it had before the push, also when v already       *)
(* occurs in the list and when the field is absent before the push.        *)
(***************************************************************************)
Absent == [absent |-> TRUE]

FieldOf(doc, field) == IF field \in DOMAIN doc THEN doc[field] ELSE Absent

IsPush(update) == DOMAIN update = {"$push"} /\ Cardinality(DOMAIN update["$push"]) = 1
IsPull(update) == DOMAIN update = {"$pull"} /\ Cardinality(DOMAIN update["$pull"]) = 1

\* In module m the last two calls were a push and a pull of the same value
\* on the same field, and both reached the same document.
PushThenPull(m) ==
    /\ last2.op = "update_one" /\ IsPush(last2.update)
    /\ last.op = "update_one" /\ IsPull(last.update)
    /\ last2.update["$push"] = last.update["$pull"]
    /\ last2.modified_count[m] = 1
    /\ last.modified_count[m] = 1
    /\ find_one(m, prev2_data[m], last2.query)["_id"]
          = find_one(m, prev_data[m], last.query)["_id"]

PushedField == CHOOSE f \in DOMAIN last.update["$pull"] : TRUE
PushedValue == last.update["$pull"][PushedField]
PushedId(m) == find_one(m, prev_data[m], last.query)["_id"]
FieldBefore(m) == FieldOf(dict_get(prev2_data[m], PushedId(m)).doc, PushedField)
FieldAfter(m) == FieldOf(dict_get(activities_data[m], PushedId(m)).doc, PushedField)

C4_PushPullRestores ==
    \A m \in Modules : PushThenPull(m) => FieldAfter(m) = FieldBefore(m)

\* C4, amended: the field returns to its prior contents when it held a list
\* without v before the push; a field that was absent ends as the empty list.
C4_PushPullRestoresFresh ==
    \A m \in Modules :
        PushThenPull(m) =>
            /\ (FieldBefore(m) # Absent /\ ~ py_in(PushedValue, FieldBefore(m)))
                  => FieldAfter(m) = FieldBefore(m)
            /\ FieldBefore(m) = Absent => FieldAfter(m) = List(<<>>)

\* a push and pull of a value on a non-empty list that lacked it, in both
\* modules
C4_Witness ==
    /\ \A m \in Modules :
          /\ PushThenPull(m)
          /\ FieldBefore(m) # Absent
          /\ FieldBefore(m) # List(<<>>)
          /\ ~ py_in(PushedValue, FieldBefore(m))
          /\ FieldAfter(m) = FieldBefore(m)

(***************************************************************************)
(* C5: in both modules, after any sequence of insert_one calls on an       *)
(* initially empty collection, count_documents({}) equals the number of    *)
(* insert_one calls made.                                                  *)
(***************************************************************************)
C5_Case == read.op = "count_documents" /\ read.query = EmptyDict

\* only insert_one and update_one have been called
C5_OnlyInsertsAndUpdates ==
    \A i \in DOMAIN calls : calls[i] \in {"insert_one", "update_one"}

C5_CountIsCalls ==
    (C5_Case /\ C5_OnlyInsertsAndUpdates) => \A m \in Modules : read.result[m] = Len(insert_log[m])

\* C5, amended: count_documents({}) equals the number of distinct
\* identifiers passed to insert_one.
C5_CountIsDistinctIds ==
    C5_Case => \A m \in Modules : read.result[m] = Cardinality(Range(insert_log[m]))

\* an identifier was inserted twice and the count was then taken
C5_Witness ==
    /\ C5_Case
    /\ \A m \in Modules :
          /\ Len(insert_log[m]) > Cardinality(Range(insert_log[m]))
          /\ read.result[m] = Cardinality(Range(insert_log[m]))
          /\ read.result[m] > 1

(***************************************************************************)
(* C6: in both modules, update_one touches at most one document: with no   *)
(* match it reports modified_count 0 and leaves the store unchanged; with  *)
(* one or more it mutates only the first match in store order, reports     *)
(* modified_count 1, and leaves every other document unchanged.            *)
(***************************************************************************)
\* positions of the stored documents the filter matches, by the module's rule
Matching(m, data, query) ==
    {i \in DOMAIN data :
        IF m = "database" THEN database_matches(data[i].doc, query)
        ELSE database_memory_matches(Returned(data[i]), query)}

First(S) == CHOOSE i \in S : \A j \in S : i <= j

C6_UpdateTouchesFirstMatch ==
    last.op = "update_one" =>
        \A m \in Modules :
            LET hits == Matching(m, prev_data[m], last.query)
            IN  IF hits = {}
                THEN /\ last.modified_count[m] = 0
                     /\ activities_data[m] = prev_data[m]
                ELSE /\ last.modified_count[m] = 1
                     /\ Len(activities_data[m]) = Len(prev_data[m])
                     /\ \A i \in DOMAIN prev_data[m] \ {First(hits)} :
                           /\ activities_data[m][i].id = prev_data[m][i].id
                           /\ activities_data[m][i].doc = prev_data[m][i].doc
                     /\ activities_data[m][First(hits)].id = prev_data[m][First(hits)].id
                     /\ IsPush(last.update) =>
                           \A f \in DOMAIN last.update["$push"] :
                              activities_data[m][First(hits)].doc[f].list
                                 = Append(IF f \in DOMAIN prev_data[m][First(hits)].doc
                                          THEN prev_data[m][First(hits)].doc[f].list
                                          ELSE <<>>,
                                          last.update["$push"][f])

\* a filter with several matches changed the first of them, in both modules
C6_Witness ==
    /\ last.op = "update_one"
    /\ \A m \in Modules :
          LET hits == Matching(m, prev_data[m], last.query)
          IN  /\ Cardinality(hits) > 1
              /\ activities_data[m][First(hits)].doc # prev_data[m][First(hits)].doc

(***************************************************************************)
(* C7: in both modules, a query field {"$gte": x} (or {"$lte": x}) on a    *)
(* dotted path matches a document if and only if the path resolves in the  *)
(* document and the value found is >= x (or <= x).                         *)
(***************************************************************************)
C7_Case ==
    /\ read.op = "find"
    /\ OneKey(read.query)
    /\ Len(split(TheKey(read.query))) > 1
    /\ IsMap(read.query[TheKey(read.query)])
    /\ DOMAIN read.query[TheKey(read.query)].map \in {{"$gte"}, {"$lte"}}

C7_Comparison ==
    C7_Case =>
        LET key == TheKey(read.query)
            bound == read.query[key].map
            Wanted(doc) ==
                LET at == PathValue(Map(doc), split(key))
                IN  /\ at.found
                    /\ IF "$gte" \in DOMAIN bound
                       THEN ~ py_lt(at.value, bound["$gte"])
                       ELSE ~ py_gt(at.value, bound["$lte"])
        IN  \A m \in Modules :
               Range(read.result[m]) = Selected(activities_data[m], Wanted)

(***************************************************************************)
(* C8: in both modules, a query field given as a plain literal matches a   *)
(* document if and only if the field path, resolved through nested         *)
(* mappings when dotted, exists in the document and its value equals the   *)
(* literal.  (The identifier key "_id" is the subject of C1.)              *)
(***************************************************************************)
C8_Case ==
    /\ read.op = "find"
    /\ OneKey(read.query)
    /\ TheKey(read.query) # "_id"
    /\ ~ IsMap(read.query[TheKey(read.query)])

C8_PlainEquality ==
    C8_Case =>
        LET key == TheKey(read.query)
            Wanted(doc) ==
                LET at == PathValue(Map(doc), split(key))
                IN  at.found /\ at.value = read.query[key]
        IN  \A m \in Modules :
               Range(read.result[m]) = Selected(activities_data[m], Wanted)

(***************************************************************************)
(* C9: in both modules, aggregate with the distinct-days pipeline (unwind  *)
(* schedule_details.days, group, sort) returns one entry per weekday name  *)
(* that occurs in the days list of some stored document, each exactly      *)
(* once, none that occurs nowhere, in ascending order.                     *)
(***************************************************************************)
C9_Case ==
    /\ read.op = "aggregate"
    /\ read.pipeline = <<unwind_days, group_stage, sort_stage>>

\* the day names that occur in some stored document
DaysStored(data) ==
    {day \in {Str("Monday"), Str("Tuesday"), Str("Wednesday"), Str("Thursday"),
              Str("Friday"), Str("Saturday"), Str("Sunday")} :
        \E i \in DOMAIN data :
            LET days == PathValue(Map(data[i].doc), <<"schedule_details", "days">>)
            IN  days.found /\ day \in Range(days.value.list)}

C9_DistinctDaysSorted ==
    C9_Case =>
        \A m \in Modules :
            LET rows == read.result[m]
            IN  /\ \A i \in DOMAIN rows : DOMAIN rows[i] = {"_id"}
                /\ {rows[i]["_id"] : i \in DOMAIN rows} = DaysStored(activities_data[m])
                /\ \A i, j \in DOMAIN rows :
                      i < j => py_lt(rows[i]["_id"], rows[j]["_id"])

\* the seven day names of the seed catalog came back, in both modules
C9_Witness ==
    /\ C9_Case
    /\ \A m \in Modules : Len(read.result[m]) = 7

(***************************************************************************)
(* C10: in both modules, aggregate recognizes one pipeline shape (an       *)
(* unwind of the days list followed by a group stage); for any other       *)
(* pipeline it returns an empty list.  The case below takes only the       *)
(* pipelines that are of another shape whatever number of stages the       *)
(* recognized one is read to have: those whose first stage is not an       *)
(* unwind of the days list, or whose second stage is not a group stage.    *)
(***************************************************************************)
UnwindThenGroup(pipeline) ==
    /\ Len(pipeline) >= 2
    /\ pipeline[1] = unwind_days
    /\ "$group" \in DOMAIN pipeline[2]

C10_Case == read.op = "aggregate" /\ ~ UnwindThenGroup(read.pipeline)

C10_OtherPipelinesEmpty ==
    C10_Case => \A m \in Modules : read.result[m] = <<>>

(***************************************************************************)
(* C11: in both modules, in every state reached by init_database,          *)
(* insert_one and update_one ($push/$pull on any field name), no document  *)
(* body held in a collection's dict contains the field "_id".              *)
(***************************************************************************)
C11_NoIdInBody ==
    \A m \in Modules :
        /\ \A i \in DOMAIN activities_data[m] : "_id" \notin DOMAIN activities_data[m][i].doc
        /\ \A i \in DOMAIN teachers_data[m] : "_id" \notin DOMAIN teachers_data[m][i].doc

(***************************************************************************)
(* C12: in both modules, starting from empty collections, running          *)
(* init_database a second time, and any further time, leaves the number of *)
(* documents in the activities and in the teachers collection as after     *)
(* the first run: 13 activities and 3 teachers.                            *)
(***************************************************************************)
\* init_database has been called two or more times, and nothing else
C12_Case ==
    /\ Len(calls) >= 2
    /\ \A i \in DOMAIN calls : calls[i] = "init_database"

C12_SizesUnchanged ==
    C12_Case =>
        \A m \in Modules :
            /\ count_documents(m, activities_data[m], EmptyDict) = 13
            /\ count_documents(m, teachers_data[m], EmptyDict) = 3
            /\ count_documents(m, activities_data[m], EmptyDict)
                  = count_documents(m, prev_data[m], EmptyDict)

\* init_database has run three times and both modules hold the seed sizes
C12_Witness ==
    /\ C12_Case
    /\ Len(calls) = 3
    /\ \A m \in Modules :
          Len(activities_data[m]) = 13 /\ Len(teachers_data[m]) = 3

(***************************************************************************)
(* C13: run side by side from the same sequence of insert_one and          *)
(* update_one calls, the find of database.py and the find of               *)
(* database_memory.py return the same set of documents for every query of *)
(* the supported forms: {}, top-level equality including {"_id": id}, and  *)
(* $in / $gte / $lte on the schedule_details paths.                        *)
(***************************************************************************)
SupportedField(key, value) ==
    IF Len(split(key)) > 1
    THEN /\ IsMap(value)
         /\ \/ key = "schedule_details.days" /\ DOMAIN value.map = {"$in"}
            \/ /\ key \in {"schedule_details.start_time", "schedule_details.end_time"}
               /\ DOMAIN value.map \in {{"$gte"}, {"$lte"}}
    ELSE ~ IsMap(value)

SupportedQuery(query) == \A key \in DOMAIN query : SupportedField(key, query[key])

C13_Case ==
    /\ read.op = "find"
    /\ SupportedQuery(read.query)
    /\ \A i \in DOMAIN calls : calls[i] \in {"insert_one", "update_one"}

C13_SameFind ==
    C13_Case =>
        Range(read.result["database"]) = Range(read.result["database_memory"])
====
